---- MODULE Spec2Model ----
(***************************************************************************)
(* Model of dags/dbt_dag.py: one Airflow DAG file that declares the DAG    *)
(* "dbt_snowflake_pipeline" holding one Cosmos DbtTaskGroup.  The state is *)
(* what a scan of the file by the DAG processor leaves behind (catalog,    *)
(* import error, dbt invocations) and the run of the task group by the     *)
(* scheduler.  The file's own content is constant; what varies is the      *)
(* environment it is loaded in (paths present, dbt usable, host retries).  *)
(***************************************************************************)
EXTENDS Integers, Sequences, FiniteSets, TLC

\* ---- bounds of the model ----
MaxScans == 3
MaxDays == 2
MaxHostRetries == 2

VARIABLES
    env,              \* filesystem / tool state the file is loaded in
    scans,            \* number of loads of the file done so far
    catalog,          \* registered definitions: set of [dag, scan]
    import_errors,    \* error surfaced by the last load ("none" if it succeeded)
    produced,         \* produced[i]: the error and the workflows of the i-th load
    toolInvocations,  \* dbt subprocess invocations made while loading
    projectReads,     \* times the dbt project's contents were parsed while loading
    hostRetries,      \* the host runtime's retry policy (default_task_retries)
    day,              \* the scheduler's clock, in days
    lastRunDay,       \* logical day of the latest DAG run (0: none yet)
    taskState,        \* state of the task group's work in the latest run
    tries             \* try number of that work

vars == <<env, scans, catalog, import_errors, produced, toolInvocations,
          projectReads, hostRetries, day, lastRunDay, taskState, tries>>

\* ---- module constants (lines 6-7) ----
DBT_PROJECT_PATH == "/usr/local/airflow/dbt/data_pipeline"
DBT_PROFILES_PATH == "/usr/local/airflow/dbt/data_pipeline/profiles.yml"

\* The keyword arguments of the @dag decorator (lines 10-13).
dag_kwargs_no_id ==
    [schedule |-> "@daily", start_date |-> <<2026, 1, 1>>, catchup |-> FALSE]
dag_kwargs_no_catchup ==
    [dag_id |-> "dbt_snowflake_pipeline", schedule |-> "@daily",
     start_date |-> <<2026, 1, 1>>]
dag_kwargs_with_retries ==
    [dag_id |-> "dbt_snowflake_pipeline", schedule |-> "@daily",
     start_date |-> <<2026, 1, 1>>, catchup |-> FALSE,
     default_args |-> [retries |-> 3]]
dag_kwargs_now ==
    [dag_id |-> "dbt_snowflake_pipeline", schedule |-> "@daily",
     start_date |-> <<2026, 1, 1 + scans>>, catchup |-> FALSE]
dag_kwargs ==
    [dag_id |-> "dbt_snowflake_pipeline", schedule |-> "@daily",
     start_date |-> <<2026, 1, 1>>, catchup |-> FALSE]

NoArgs == [k \in {} |-> 0]

\* @dag(**kwargs) applied to the function named fname: the declared values
\* are taken as given, an absent one gets the decorator's default.
dag(kwargs, fname) ==
    [dag_id       |-> IF "dag_id" \in DOMAIN kwargs THEN kwargs.dag_id ELSE fname,
     schedule     |-> IF "schedule" \in DOMAIN kwargs THEN kwargs.schedule
                      ELSE "timedelta(days=1)",
     start_date   |-> IF "start_date" \in DOMAIN kwargs THEN kwargs.start_date
                      ELSE <<>>,
     catchup      |-> IF "catchup" \in DOMAIN kwargs THEN kwargs.catchup ELSE TRUE,
     default_args |-> IF "default_args" \in DOMAIN kwargs THEN kwargs.default_args
                      ELSE NoArgs]

\* The keyword arguments of DbtTaskGroup (lines 17-33).
dbt_tg_kwargs_no_group_id ==
    [project_config   |-> [dbt_project_path |-> DBT_PROJECT_PATH],
     profile_config   |-> [profiles_yml_filepath |-> DBT_PROFILES_PATH,
                           profile_name |-> "data_pipeline",
                           target_name |-> "dev"],
     execution_config |-> [execution_mode |-> "LOCAL"],
     render_config    |-> [load_method |-> "DBT_LS"]]
dbt_tg_kwargs_no_render ==
    [group_id         |-> "dbt_tg",
     project_config   |-> [dbt_project_path |-> DBT_PROJECT_PATH],
     profile_config   |-> [profiles_yml_filepath |-> DBT_PROFILES_PATH,
                           profile_name |-> "data_pipeline",
                           target_name |-> "dev"],
     execution_config |-> [execution_mode |-> "LOCAL"]]
dbt_tg_kwargs ==
    [group_id         |-> "dbt_tg",
     project_config   |-> [dbt_project_path |-> DBT_PROJECT_PATH],
     profile_config   |-> [profiles_yml_filepath |-> DBT_PROFILES_PATH,
                           profile_name |-> "data_pipeline",
                           target_name |-> "dev"],
     execution_config |-> [execution_mode |-> "LOCAL"],
     render_config    |-> [load_method |-> "DBT_LS"]]

\* DbtTaskGroup(**kwargs): declared settings as given, defaults otherwise.
DbtTaskGroup(kwargs) ==
    [group_id         |-> IF "group_id" \in DOMAIN kwargs THEN kwargs.group_id
                          ELSE "dbt_task_group",
     project_config   |-> kwargs.project_config,
     profile_config   |-> kwargs.profile_config,
     execution_config |-> IF "execution_config" \in DOMAIN kwargs
                          THEN kwargs.execution_config
                          ELSE [execution_mode |-> "LOCAL"],
     render_config    |-> IF "render_config" \in DOMAIN kwargs
                          THEN kwargs.render_config
                          ELSE [load_method |-> "AUTOMATIC"],
     operator_args    |-> IF "operator_args" \in DOMAIN kwargs
                          THEN kwargs.operator_args ELSE NoArgs]

\* The body of dbt_pipeline(): the task groups it creates, in order.
dbt_pipeline == <<DbtTaskGroup(dbt_tg_kwargs)>>

\* The workflow object: the DAG's own attributes plus the task groups created
\* inside its context.
Workflow(d, groups) ==
    [dag_id |-> d.dag_id, schedule |-> d.schedule, start_date |-> d.start_date,
     catchup |-> d.catchup, default_args |-> d.default_args,
     task_groups |-> groups]

\* The workflows the module creates: one per call of the decorated function
\* at module level (line 35).
ModuleDags == <<Workflow(dag(dag_kwargs, "dbt_pipeline"), dbt_pipeline)>>

\* ---- what the libraries accept ----
CronPresets == {"@once", "@continuous", "@hourly", "@daily", "@weekly",
                "@monthly", "@quarterly", "@yearly"}
ExecutionModes == {"LOCAL", "VIRTUALENV", "DOCKER", "KUBERNETES"}
LoadModes == {"AUTOMATIC", "CUSTOM", "DBT_LS", "DBT_LS_FILE", "DBT_MANIFEST"}

\* A load method that enumerates the graph by running `dbt ls`.
LoadInvokesTool(m) == m \in {"DBT_LS", "AUTOMATIC"}

Env == [project : BOOLEAN, profiles : BOOLEAN, dbt : BOOLEAN]

\* The task groups of the module's workflows.
Groups == {w.task_groups[i] : w \in {ModuleDags[j] : j \in DOMAIN ModuleDags},
                              i \in DOMAIN dbt_pipeline}

\* TRUE when rendering the task groups in environment e gets as far as
\* running dbt: the configuration has passed validation and a group's load
\* method needs the tool.
RunsDbtLs(e) ==
    /\ e.project /\ e.profiles /\ e.dbt
    /\ \A w \in {ModuleDags[j] : j \in DOMAIN ModuleDags} : w.schedule \in CronPresets
    /\ \A g \in Groups : /\ g.execution_config.execution_mode \in ExecutionModes
                         /\ g.render_config.load_method \in LoadModes
    /\ \E g \in Groups : LoadInvokesTool(g.render_config.load_method)

\* The exception that leaves the module when it is executed in environment
\* e, "none" when it runs to its end.  Nothing in the file catches one.
LoadErrorSwallowed(e) == "none"
LoadError(e) ==
    IF \E w \in {ModuleDags[j] : j \in DOMAIN ModuleDags} : w.schedule \notin CronPresets
        THEN "invalid_schedule"
    ELSE IF \E g \in Groups : g.execution_config.execution_mode \notin ExecutionModes
        THEN "unknown_execution_mode"
    ELSE IF \E g \in Groups : g.render_config.load_method \notin LoadModes
        THEN "unknown_load_method"
    ELSE IF ~e.project THEN "project_path_missing"
    ELSE IF ~e.profiles THEN "profiles_yml_missing"
    ELSE IF (\E g \in Groups : LoadInvokesTool(g.render_config.load_method)) /\ ~e.dbt
        THEN "dbt_ls_failed"
    ELSE "none"

\* Registration of the dags of one load: an entry with the same dag_id is
\* replaced.
bag_dags(cat, dags, n) ==
    {c \in cat : \A j \in DOMAIN dags : c.dag.dag_id # dags[j].dag_id}
        \cup {[dag |-> dags[j], scan |-> n] : j \in DOMAIN dags}

\* Retries of the group's tasks: what the definition declares, else the
\* host's policy.
Retries(w) ==
    IF "retries" \in DOMAIN w.default_args THEN w.default_args.retries
    ELSE IF \E i \in DOMAIN w.task_groups :
              "retries" \in DOMAIN w.task_groups[i].operator_args
        THEN (w.task_groups[CHOOSE i \in DOMAIN w.task_groups :
                 "retries" \in DOMAIN w.task_groups[i].operator_args]).operator_args.retries
    ELSE hostRetries

Init ==
    /\ env \in Env
    /\ scans = 0
    /\ catalog = {}
    /\ import_errors = "none"
    /\ produced = <<>>
    /\ toolInvocations = 0
    /\ projectReads = 0
    /\ hostRetries \in 0..MaxHostRetries
    /\ day = 1
    /\ lastRunDay = 0
    /\ taskState = "none"
    /\ tries = 0

\* The environment changes between scans: a path appears or disappears, dbt
\* becomes usable or not.
EnvChange ==
    /\ \E e \in Env : e # env /\ env' = e
    /\ UNCHANGED <<scans, catalog, import_errors, produced, toolInvocations,
                   projectReads, hostRetries, day, lastRunDay, taskState, tries>>

\* One load of the file by the DAG processor: the module is executed top to
\* bottom; an exception becomes the file's import error and nothing is
\* registered, otherwise the created dags are registered.
Load ==
    /\ scans < MaxScans
    /\ scans' = scans + 1
    /\ import_errors' = LoadError(env)
    /\ catalog' = IF LoadError(env) = "none"
                  THEN bag_dags(catalog, ModuleDags, scans + 1) ELSE catalog
    /\ produced' = Append(produced,
                          [error |-> LoadError(env),
                           dags  |-> IF LoadError(env) = "none" THEN ModuleDags
                                     ELSE <<>>])
    /\ toolInvocations' = toolInvocations + (IF RunsDbtLs(env) THEN 1 ELSE 0)
    /\ projectReads' = projectReads + (IF RunsDbtLs(env) THEN 1 ELSE 0)
    /\ UNCHANGED <<env, hostRetries, day, lastRunDay, taskState, tries>>

\* ---- the host runtime acting on the registered definition ----
TheDag == (CHOOSE c \in catalog : TRUE).dag

Tick ==
    /\ day < MaxDays
    /\ day' = day + 1
    /\ UNCHANGED <<env, scans, catalog, import_errors, produced, toolInvocations,
                   projectReads, hostRetries, lastRunDay, taskState, tries>>

\* A run is created for a day not yet run; without catchup only the latest.
CreateDagRunMovesStart ==
    /\ catalog # {}
    /\ TheDag.schedule = "@daily"
    /\ lastRunDay < day
    /\ taskState \in {"none", "success", "failed"}
    /\ lastRunDay' = IF TheDag.catchup THEN lastRunDay + 1 ELSE day
    /\ taskState' = "queued"
    /\ tries' = 0
    /\ catalog' = {[c EXCEPT !.dag.start_date = <<2026, 1, 1 + day>>] : c \in catalog}
    /\ UNCHANGED <<env, scans, import_errors, produced, toolInvocations,
                   projectReads, hostRetries, day>>
CreateDagRun ==
    /\ catalog # {}
    /\ TheDag.schedule = "@daily"
    /\ lastRunDay < day
    /\ taskState \in {"none", "success", "failed"}
    /\ lastRunDay' = IF TheDag.catchup THEN lastRunDay + 1 ELSE day
    /\ taskState' = "queued"
    /\ tries' = 0
    /\ UNCHANGED <<env, scans, catalog, import_errors, produced, toolInvocations,
                   projectReads, hostRetries, day>>

StartTask ==
    /\ taskState = "queued"
    /\ taskState' = "running"
    /\ tries' = tries + 1
    /\ UNCHANGED <<env, scans, catalog, import_errors, produced, toolInvocations,
                   projectReads, hostRetries, day, lastRunDay>>

TaskSucceeds ==
    /\ taskState = "running"
    /\ taskState' = "success"
    /\ UNCHANGED <<env, scans, catalog, import_errors, produced, toolInvocations,
                   projectReads, hostRetries, day, lastRunDay, tries>>

\* A failed try is retried while the task's retries allow it.
TaskFails ==
    /\ taskState = "running"
    /\ catalog # {}
    /\ taskState' = IF tries <= Retries(TheDag) THEN "up_for_retry" ELSE "failed"
    /\ UNCHANGED <<env, scans, catalog, import_errors, produced, toolInvocations,
                   projectReads, hostRetries, day, lastRunDay, tries>>

RetryTask ==
    /\ taskState = "up_for_retry"
    /\ taskState' = "queued"
    /\ UNCHANGED <<env, scans, catalog, import_errors, produced, toolInvocations,
                   projectReads, hostRetries, day, lastRunDay, tries>>

Next ==
    \/ EnvChange
    \/ Load
    \/ Tick
    \/ CreateDagRun
    \/ StartTask
    \/ TaskSucceeds
    \/ TaskFails
    \/ RetryTask

Spec == Init /\ [][Next]_vars

\* ---- properties ----
Registered == {c.dag : c \in catalog}
Succeeded == {i \in DOMAIN produced : produced[i].error = "none"}

\* C1: loading the definition never invokes the transformation tool: the
\* count of dbt invocations made by loads stays 0.
NoToolInvocationDuringLoad == toolInvocations = 0

\* C2: a load that succeeds produces exactly one workflow, and its
\* identifier is the declared "dbt_snowflake_pipeline".
OneWorkflowWithDeclaredId ==
    \A i \in Succeeded :
        /\ Len(produced[i].dags) = 1
        /\ produced[i].dags[1].dag_id = "dbt_snowflake_pipeline"
        /\ i = scans =>
             Cardinality({c \in catalog : c.scan = i}) = 1
OneWorkflowWitness == scans \in Succeeded

\* C3: the loaded workflow is scheduled "@daily", starts on 2026-01-01 and
\* has catchup false.
ScheduleAsDeclared ==
    \A w \in Registered :
        /\ w.schedule = "@daily"
        /\ w.start_date = <<2026, 1, 1>>
        /\ w.catchup = FALSE
ScheduleWitness == Registered # {} /\ lastRunDay = MaxDays

\* C4: the task group of the loaded workflow carries the declared project
\* path, profile file, profile name, target name, execution mode and load
\* method unchanged.
TaskGroupSettingsVerbatim ==
    \A w \in Registered :
        /\ Len(w.task_groups) >= 1
        /\ \A i \in DOMAIN w.task_groups :
             LET g == w.task_groups[i] IN
             /\ g.project_config.dbt_project_path
                    = "/usr/local/airflow/dbt/data_pipeline"
             /\ g.profile_config.profiles_yml_filepath
                    = "/usr/local/airflow/dbt/data_pipeline/profiles.yml"
             /\ g.profile_config.profile_name = "data_pipeline"
             /\ g.profile_config.target_name = "dev"
             /\ g.execution_config.execution_mode = "LOCAL"
             /\ g.render_config.load_method = "DBT_LS"
TaskGroupWitness == \E w \in Registered : Len(w.task_groups) = 1

\* C5: every successful load produces the same workflow object as the first
\* successful load.
ReloadIdempotent ==
    \A i, j \in Succeeded : produced[i].dags = produced[j].dags
ReloadWitness == Cardinality(Succeeded) >= 2

\* C6: a load with a missing project or profile path (or a schedule or enum
\* value the libraries reject) ends in a surfaced import error and registers
\* nothing.
ConfigInvalid(e) ==
    \/ ~e.project
    \/ ~e.profiles
    \/ \E j \in DOMAIN ModuleDags : ModuleDags[j].schedule \notin CronPresets
    \/ \E g \in Groups : \/ g.execution_config.execution_mode \notin ExecutionModes
                         \/ g.render_config.load_method \notin LoadModes
InvalidLoadSurfaced ==
    [][(scans' = scans + 1 /\ ConfigInvalid(env)) =>
          /\ import_errors' # "none"
          /\ catalog' = catalog
          /\ produced'[scans'].dags = <<>>]_vars
InvalidLoadWitness ==
    /\ scans >= 1
    /\ import_errors \in {"project_path_missing", "profiles_yml_missing"}
    /\ produced[scans].dags = <<>>

\* C7: a load changes nothing but the catalog: it never reads the dbt
\* project's contents.
LoadIsPureDeclaration == [][projectReads' = projectReads]_vars

AtMostOneDefinition ==
    /\ Cardinality({c \in catalog : c.dag.dag_id = "dbt_snowflake_pipeline"}) <= 1
    /\ \A w \in Registered :
         /\ Len(w.task_groups) = 1
         /\ w.task_groups[1].group_id = "dbt_tg"
RescanWitness == \E c \in catalog : c.scan >= 2 /\ Cardinality(Succeeded) >= 2

\* C10: the definition declares no retries: a task is tried at most once
\* plus the host's retries, and its retries are the host's.
RetryIsHostPolicy ==
    /\ tries <= hostRetries + 1
    /\ \A w \in Registered :
         /\ Retries(w) = hostRetries
         /\ "retries" \notin DOMAIN w.default_args
         /\ \A i \in DOMAIN w.task_groups :
              "retries" \notin DOMAIN w.task_groups[i].operator_args
RetryWitness == taskState = "failed" /\ hostRetries >= 1 /\ tries = hostRetries + 1
====
